---- MODULE Spec2Model ----
(***************************************************************************)
(* CoatCheck (src/src/lib.rs): a slot store that exchanges values for      *)
(* tickets.  The model holds a small number of stores, the tickets the     *)
(* caller currently owns, and at most one live Tickets adaptor (the value  *)
(* returned by check_all).  Indices are 0-based as in the source; the      *)
(* slot at index i is data[i + 1].                                         *)
(***************************************************************************)
EXTENDS Integers, Sequences, FiniteSets, TLC

\* ---- bounds -------------------------------------------------------------
NumStores == 2      \* stores alive at the same time
USIZE_MAX == 3      \* largest usize value (usize at a reduced width)
MaxVal    == 2      \* values checked in are 1..MaxVal
MaxChecks == 3      \* check-ins performed in one run
MaxSeq    == 2      \* longest source sequence handed to check_all
NumThreads == 2     \* threads alive at the same time (tagger)
U16_BITS  == 1      \* width of u16 (u16 at a reduced width)
U64_MAX   == 1      \* largest u64 value (u64 at a reduced width)
MaxCalls  == 4      \* calls of next_tag that return in one run
MaxReserve == 2     \* largest argument of reserve / reserve_exact
MaxSpare  == 1      \* largest spare capacity of the Vec before a reserve

Stores == 1..NumStores
Usize  == 0..USIZE_MAX
Vals   == 1..MaxVal

VARIABLES
    cc,         \* cc[s]: the CoatCheck with number s
    tickets,    \* the Ticket values the caller owns
    tix,        \* the live Tickets adaptor, or NoTix
    panic,      \* "none", or the message of the panic that ended the run
    ret,        \* what the last call yielded, if it was an iteration or a
                \* write through get_mut; NoRet after any other call
    nchecks,    \* check-ins performed so far
    tg          \* the tag generator of tagger.rs and the threads that use it

store_vars == <<cc, tickets, tix, panic, ret, nchecks>>
vars == <<cc, tickets, tix, panic, ret, nchecks, tg>>

\* ---- Entry<V> -----------------------------------------------------------
Full(v)  == [kind |-> "Full",  x |-> v]
Empty(n) == [kind |-> "Empty", x |-> n]

\* Option<V>: <<>> is None, <<v>> is Some(v)
None    == <<>>
Some(v) == <<v>>

full(e)     == IF e.kind = "Full" THEN Some(e.x) ELSE None
full_ref(e) == IF e.kind = "Full" THEN Some(e.x) ELSE None
full_mut(e) == IF e.kind = "Full" THEN Some(e.x) ELSE None
is_full(e)  == e.kind = "Full"

\* Entry::fill: the swap happens first, the match on the old entry after it
fill(e, value) ==
    [entry |-> Full(value),
     out   |-> e.x,
     panic |-> IF e.kind = "Empty" THEN "none" ELSE "expected no entry"]

\* Entry::empty: likewise
empty(e, next_free) ==
    [entry |-> Empty(next_free),
     out   |-> e.x,
     panic |-> IF e.kind = "Full" THEN "none" ELSE "expected an entry"]

\* ---- Ticket and errors --------------------------------------------------
\* tag and index are the fields of the struct; the other fields are
\* history.  issuer: the store whose check returned the ticket (0 once
\* that store is gone).  val: the
\* value that check was given or, once a value has been assigned to the
\* ticket's slot through get_mut, the last value assigned.  reused: the
\* check filled a slot that a claim had freed.  id: tells apart tickets
\* that agree in everything else (0 unless there is such a ticket).
Ticket(tag, index, id, issuer, val, reused) ==
    [tag |-> tag, index |-> index, id |-> id, issuer |-> issuer, val |-> val,
     reused |-> reused]

NoTicket ==
    [tag |-> 0, index |-> 0, id |-> 0, issuer |-> 0, val |-> 0,
     reused |-> FALSE]

WrongCoatCheck == "WrongCoatCheck"

ClaimError(kind, ticket) == [kind |-> kind, ticket |-> ticket]
AccessError(kind)        == [kind |-> kind]

\* FromError<ClaimError> for Ticket
from_error(e) == e.ticket

\* ---- CoatCheck<V> -------------------------------------------------------
\* cc[s] is a place for a store: st is "live" while a store is there, "none"
\* before CoatCheck::new and again after into_iter has consumed the store.
\* log and pristine are history: pristine until the first successful claim,
\* and until then log holds the values checked in, in order of check-in
\* (each as last assigned through get_mut); peak is the largest value len()
\* has had after a check-in.
NoStore ==
    [st |-> "none", tag |-> 0, data |-> <<>>, size |-> 0, next_free |-> 0,
     log |-> <<>>, pristine |-> TRUE, peak |-> 0]

\* CoatCheck::with_capacity; the tag is the result of random()
with_capacity(tag) ==
    [st |-> "live", tag |-> tag, data |-> <<>>, size |-> 0, next_free |-> 0,
     log |-> <<>>, pristine |-> TRUE, peak |-> 0]

len(c)      == c.size
is_empty(c) == c.size = 0

\* What a call does: the store after it, the panic it raised ("none" if it
\* returned), and what it returned: res is "Ok", "Some", "None", "true",
\* "false" or the kind of the error, val the value returned (0 if none),
\* index the index of the ticket returned by check, back the ticket carried
\* by a ClaimError.  A panic leaves the store as it was when the panic was
\* raised: a push or a mem::swap before it has already happened.
Outcome(c, res, val, index, back) ==
    [cc |-> c, panic |-> "none", res |-> res, val |-> val, index |-> index,
     back |-> back]

Panic(c, msg) ==
    [cc |-> c, panic |-> msg, res |-> "panic", val |-> 0, index |-> 0,
     back |-> NoTicket]

\* a check whose next_free wraps around instead of panicking (C16 must
\* reject it)
check_wraps(c, value, dbg) ==
    LET loc == c.next_free IN
    IF c.next_free = Len(c.data)
    THEN Outcome([c EXCEPT !.data = Append(@, Full(value)),
                           !.next_free = (c.next_free + 1) % (USIZE_MAX + 1),
                           !.size = @ + 1],
                 "Ok", 0, loc, NoTicket)
    ELSE Outcome([c EXCEPT !.data[loc + 1] = Full(value),
                           !.next_free = c.data[loc + 1].x,
                           !.size = @ + 1],
                 "Ok", 0, loc, NoTicket)

\* a check that appends a slot even when the free list has one (C20 must
\* reject it)
check_always_appends(c, value, dbg) ==
    Outcome([c EXCEPT !.data = Append(@, Full(value)),
                      !.next_free = IF @ = Len(c.data) THEN @ + 1 ELSE @,
                      !.size = @ + 1],
            "Ok", 0, Len(c.data), NoTicket)

\* a check that fills the slot at next_free and leaves next_free where it
\* was (C26 must reject it)
check_stale_next_free(c, value, dbg) ==
    LET loc == c.next_free IN
    IF c.next_free = Len(c.data)
    THEN Outcome([c EXCEPT !.data = Append(@, Full(value)),
                           !.next_free = c.next_free + 1,
                           !.size = @ + 1],
                 "Ok", 0, loc, NoTicket)
    ELSE LET r == fill(c.data[loc + 1], value)
             filled == [c EXCEPT !.data[loc + 1] = r.entry] IN
         IF r.panic # "none"
         THEN Panic(filled, r.panic)
         ELSE Outcome([filled EXCEPT !.size = @ + 1], "Ok", 0, loc, NoTicket)

\* CoatCheck::check; dbg: debug_assert! is compiled in
check(c, value, dbg) ==
    LET loc == c.next_free IN
    IF dbg /\ ~(loc <= Len(c.data))
    THEN Panic(c, "assertion failed: loc <= self.data.len()")
    ELSE IF c.next_free = Len(c.data)
    THEN LET pushed == [c EXCEPT !.data = Append(@, Full(value))] IN
         IF c.next_free + 1 > USIZE_MAX
         THEN Panic(pushed, "called Option::unwrap() on a None value")
         ELSE Outcome([pushed EXCEPT !.next_free = c.next_free + 1,
                                     !.size = @ + 1],
                      "Ok", 0, loc, NoTicket)
    ELSE IF loc >= Len(c.data)
    THEN Panic(c, "index out of bounds")
    ELSE LET r == fill(c.data[loc + 1], value)
             filled == [c EXCEPT !.data[loc + 1] = r.entry] IN
         IF r.panic # "none"
         THEN Panic(filled, r.panic)
         ELSE Outcome([filled EXCEPT !.next_free = r.out, !.size = @ + 1],
                      "Ok", 0, loc, NoTicket)

\* a claim that ends the free list at the slot it empties instead of linking
\* it to the old next_free (C18 must reject it)
claim_drops_list(c, ticket) ==
    IF ticket.tag # c.tag
    THEN Outcome(c, WrongCoatCheck, 0, 0, ticket)
    ELSE IF ticket.index >= Len(c.data)
    THEN Panic(c, "index out of bounds")
    ELSE LET r == empty(c.data[ticket.index + 1], Len(c.data))
             emptied == [c EXCEPT !.data[ticket.index + 1] = r.entry] IN
         IF r.panic # "none"
         THEN Panic(emptied, r.panic)
         ELSE Outcome([emptied EXCEPT !.next_free = ticket.index,
                                      !.size = @ - 1],
                      "Ok", r.out, 0, NoTicket)

\* a claim that moves next_free to the ticket's index before it looks at the
\* tag (C23 must reject it)
claim_touches_first(c, ticket) ==
    IF ticket.tag # c.tag
    THEN Outcome([c EXCEPT !.next_free = ticket.index],
                 WrongCoatCheck, 0, 0, ticket)
    ELSE IF ticket.index >= Len(c.data)
    THEN Panic(c, "index out of bounds")
    ELSE IF c.data[ticket.index + 1].kind # "Full"
    THEN Panic([c EXCEPT !.data[ticket.index + 1] = Empty(c.next_free)],
               "expected an entry")
    ELSE Outcome([c EXCEPT !.data[ticket.index + 1] = Empty(c.next_free),
                           !.next_free = ticket.index,
                           !.size = @ - 1],
                 "Ok", c.data[ticket.index + 1].x, 0, NoTicket)

\* a claim that gives the last slot back instead of putting it on the free
\* list (C21 must reject it)
claim_shrinks(c, ticket) ==
    IF ticket.tag # c.tag
    THEN Outcome(c, WrongCoatCheck, 0, 0, ticket)
    ELSE IF ticket.index >= Len(c.data)
    THEN Panic(c, "index out of bounds")
    ELSE IF c.data[ticket.index + 1].kind # "Full"
    THEN Panic(c, "expected an entry")
    ELSE IF ticket.index + 1 = Len(c.data) /\ c.next_free = Len(c.data)
    THEN Outcome([c EXCEPT !.data = SubSeq(@, 1, Len(@) - 1),
                           !.next_free = ticket.index,
                           !.size = @ - 1],
                 "Ok", c.data[ticket.index + 1].x, 0, NoTicket)
    ELSE Outcome([c EXCEPT !.data[ticket.index + 1] = Empty(c.next_free),
                           !.next_free = ticket.index,
                           !.size = @ - 1],
                 "Ok", c.data[ticket.index + 1].x, 0, NoTicket)

\* CoatCheck::claim
claim(c, ticket) ==
    IF ticket.tag # c.tag
    THEN LET e == ClaimError(WrongCoatCheck, ticket) IN
         Outcome(c, e.kind, 0, 0, e.ticket)
    ELSE IF ticket.index >= Len(c.data)
    THEN Panic(c, "index out of bounds")
    ELSE LET r == empty(c.data[ticket.index + 1], c.next_free)
             emptied == [c EXCEPT !.data[ticket.index + 1] = r.entry] IN
         IF r.panic # "none"
         THEN Panic(emptied, r.panic)
         ELSE Outcome([emptied EXCEPT !.next_free = ticket.index,
                                      !.size = @ - 1],
                      "Ok", r.out, 0, NoTicket)

\* CoatCheck::get
get(c, ticket) ==
    IF ticket.tag # c.tag
    THEN Outcome(c, AccessError(WrongCoatCheck).kind, 0, 0, NoTicket)
    ELSE IF ticket.index >= Len(c.data)
    THEN Panic(c, "index out of bounds")
    ELSE IF c.data[ticket.index + 1].kind = "Full"
    THEN Outcome(c, "Ok", c.data[ticket.index + 1].x, 0, NoTicket)
    ELSE Panic(c, "forged ticket")

\* a get_mut that takes the value out of the slot as claim does (C12 must
\* reject it)
get_mut_takes(c, ticket, w) ==
    IF ticket.tag # c.tag
    THEN Outcome(c, AccessError(WrongCoatCheck).kind, 0, 0, NoTicket)
    ELSE IF ticket.index >= Len(c.data)
    THEN Panic(c, "index out of bounds")
    ELSE IF c.data[ticket.index + 1].kind = "Full"
    THEN Outcome([c EXCEPT !.data[ticket.index + 1] = Empty(c.next_free),
                           !.next_free = ticket.index,
                           !.size = @ - 1],
                 "Ok", w, 0, NoTicket)
    ELSE Panic(c, "forged ticket")

\* CoatCheck::get_mut, and the assignment of w through the reference it
\* returns
get_mut(c, ticket, w) ==
    IF ticket.tag # c.tag
    THEN Outcome(c, AccessError(WrongCoatCheck).kind, 0, 0, NoTicket)
    ELSE IF ticket.index >= Len(c.data)
    THEN Panic(c, "index out of bounds")
    ELSE IF c.data[ticket.index + 1].kind = "Full"
    THEN Outcome([c EXCEPT !.data[ticket.index + 1] = Full(w)],
                 "Ok", w, 0, NoTicket)
    ELSE Panic(c, "forged ticket")

\* an Index::index that hands the result of get on as it is (C11 must
\* reject it)
Index_index_no_expect(c, ticket) == get(c, ticket)

\* Index<Ticket>::index: self.get(ticket).ok().expect(..)
Index_index(c, ticket) ==
    LET r == get(c, ticket) IN
    IF r.panic # "none" \/ r.res = "Ok" THEN r
    ELSE Panic(r.cc, "ticket for wrong CoatCheck")

\* IndexMut<Ticket>::index_mut, and the assignment of w through the
\* reference it returns
index_mut(c, ticket, w) ==
    LET r == get_mut(c, ticket, w) IN
    IF r.panic # "none" \/ r.res = "Ok" THEN r
    ELSE Panic(r.cc, "ticket for wrong CoatCheck")

\* CoatCheck::contains_ticket; dbg: debug_assert! is compiled in
contains_ticket(c, ticket, dbg) ==
    IF dbg /\ ticket.index >= Len(c.data)
    THEN Panic(c, "index out of bounds")
    ELSE IF dbg /\ ~is_full(c.data[ticket.index + 1])
    THEN Panic(c, "assertion failed: self.data[ticket.index].is_full()")
    ELSE Outcome(c, IF ticket.tag = c.tag THEN "true" ELSE "false",
                 0, 0, NoTicket)

\* ---- iteration ------------------------------------------------------------
\* The function handed to filter_map, by name
Apply(f, e) ==
    CASE f = "full"     -> full(e)
      [] f = "full_ref" -> full_ref(e)
      [] f = "full_mut" -> full_mut(e)

\* iter::FilterMap::next over the entries not yet visited
RECURSIVE filter_map_next(_, _)
filter_map_next(f, entries) ==
    IF entries = <<>>
    THEN [item |-> None, rest |-> <<>>]
    ELSE IF Apply(f, Head(entries)) # None
    THEN [item |-> Apply(f, Head(entries)), rest |-> Tail(entries)]
    ELSE filter_map_next(f, Tail(entries))

GenericIter(inner, f, remaining) ==
    [inner |-> inner, f |-> f, remaining |-> remaining]

\* a GenericIter::next that stops one item short (C7 must reject it)
generic_next_one_short(it) ==
    IF it.remaining > 1
    THEN LET n == filter_map_next(it.f, it.inner) IN
         [item |-> n.item,
          it   |-> [it EXCEPT !.remaining = @ - 1, !.inner = n.rest]]
    ELSE [item |-> None, it |-> it]

\* GenericIter::next
generic_next(it) ==
    IF it.remaining > 0
    THEN LET n == filter_map_next(it.f, it.inner) IN
         [item |-> n.item,
          it   |-> [it EXCEPT !.remaining = @ - 1, !.inner = n.rest]]
    ELSE [item |-> None, it |-> it]

\* a for loop over the iterator: the items up to the first None
RECURSIVE collect(_)
collect(it) ==
    LET n == generic_next(it) IN
    IF n.item = None THEN <<>> ELSE n.item \o collect(n.it)

iter(c)      == GenericIter(c.data, "full_ref", len(c))
iter_mut(c)  == GenericIter(c.data, "full_mut", len(c))
into_iter(c) == GenericIter(c.data, "full", len(c))

IterOf(kind, c) ==
    CASE kind = "iter"      -> iter(c)
      [] kind = "iter_mut"  -> iter_mut(c)
      [] kind = "into_iter" -> into_iter(c)

\* ---- check_all and the Tickets adaptor ------------------------------------
\* cc and iter are the fields of the struct.  History: src is the source
\* sequence as handed to check_all, size0 the store's len() at that moment,
\* lo / hi the number of items taken from the front / the back, taken the
\* tickets handed out so far, each with the position in src of its item,
\* fwd whether only next has been called, done whether next returned None.
NoTix ==
    [cc |-> 0, iter |-> <<>>, src |-> <<>>, size0 |-> 0, lo |-> 0, hi |-> 0,
     taken |-> <<>>, fwd |-> TRUE, done |-> FALSE]

\* CoatCheck::reserve is a request to the Vec's allocator; it touches no
\* slot, size or next_free.  request is the argument of self.data.reserve,
\* None if the call is not made.
extra_space(c) == Len(c.data) - len(c)

\* a reserve that ignores the Empty slots (C15 must reject it)
reserve_ignores_spare(c, additional) ==
    [cc |-> c, request |-> IF additional > 0 THEN Some(additional) ELSE None]

reserve(c, additional) ==
    IF extra_space(c) < additional
    THEN [cc |-> c, request |-> Some(additional - extra_space(c))]
    ELSE [cc |-> c, request |-> None]

\* CoatCheck::reserve_exact
reserve_exact(c, additional) ==
    IF extra_space(c) < additional
    THEN [cc |-> c, request |-> Some(additional - extra_space(c))]
    ELSE [cc |-> c, request |-> None]

\* Vec::reserve / Vec::reserve_exact on a Vec of the given length and
\* capacity: the capacities it can have afterwards.  Nothing happens if the
\* capacity already covers length + additional; otherwise the new capacity
\* is at least that, and the allocator may give more.
Vec_reserve(length, cap, additional) ==
    IF cap - length >= additional THEN {cap}
    ELSE (length + additional)..(length + additional + MaxSpare)

\* a check_all that loses the first source item (C8 must reject it)
check_all_skips_first(c, src) ==
    [cc |-> reserve(c, Len(src)).cc,
     iter |-> IF src = <<>> THEN src ELSE Tail(src)]

\* a check_all that checks the first source item in at once instead of
\* leaving it to the adaptor (C9 must reject it)
check_all_eager(c, src) ==
    [cc |-> IF src = <<>> THEN reserve(c, Len(src)).cc
            ELSE check(reserve(c, Len(src)).cc, Head(src), FALSE).cc,
     iter |-> src]

\* CoatCheck::check_all: the store after the call and the adaptor's source
check_all(c, src) ==
    [cc |-> reserve(c, Len(src)).cc, iter |-> src]

\* The source iterator's next / next_back / idx, as Tickets calls them:
\* the item or None, and the source after the call
source_next(it) ==
    IF it = <<>> THEN [item |-> None, rest |-> it]
    ELSE [item |-> Some(Head(it)), rest |-> Tail(it)]

source_next_back(it) ==
    IF it = <<>> THEN [item |-> None, rest |-> it]
    ELSE [item |-> Some(it[Len(it)]), rest |-> SubSeq(it, 1, Len(it) - 1)]

source_idx(it, index) ==
    IF index < Len(it) THEN [item |-> Some(it[index + 1]), rest |-> it]
    ELSE [item |-> None, rest |-> it]

\* ---- tagger.rs --------------------------------------------------------------
Threads == 1..NumThreads
U16_MAX == 2^U16_BITS - 1

as_u16(n) == n % 2^U16_BITS
as_u32(n) == n % 2^(2 * U16_BITS)

TagPrefix(a, b, c)  == <<a, b, c>>
Tag(prefix, offset) == [prefix |-> prefix, offset |-> offset]
\* NEXT_LOCAL_TAG of a thread that has not touched it yet
NoTag == [prefix |-> <<>>, offset |-> 0]

\* a counter that starts again from (0, 0) when it cannot go on (C17 must
\* reject it)
advance_wraps(old) ==
    IF old[2] + 1 <= U16_MAX
    THEN [value |-> <<old[1], old[2] + 1>>, panic |-> "none"]
    ELSE [value |-> <<(old[1] + 1) % (U64_MAX + 1), 0>>, panic |-> "none"]

\* Tagger::next, the match: the counter after old, or the panic
advance(old) ==
    IF old[2] + 1 <= U16_MAX
    THEN [value |-> <<old[1], old[2] + 1>>, panic |-> "none"]
    ELSE IF old[1] + 1 <= U64_MAX
    THEN [value |-> <<old[1] + 1, 0>>, panic |-> "none"]
    ELSE [value |-> old, panic |-> "CoatCheck ID overflow!"]

\* Tagger::next, the value returned:
\* TagPrefix(old.0, (old.1 >> 16) as u32, old.1 as u16)
prefix_of(old) ==
    TagPrefix(old[1], as_u32(old[2] \div 2^U16_BITS), as_u16(old[2]))

\* a mutex that lets every thread in (C13 must reject it)
can_lock_always(mutex) == TRUE

\* self.mutex.lock(): the mutex lets a thread in when no thread holds it
can_lock(mutex) == mutex.holder = 0

\* a guard that is never dropped (C22 must reject it)
unlock_leaks(mutex, t) == mutex

\* the drop of the MutexGuard at the end of Tagger::next, by thread t
unlock(mutex, t) == [mutex EXCEPT !.holder = IF @ = t THEN 0 ELSE @]

\* a test that sends the thread for a new prefix one offset early (C14 must
\* reject it)
exhausted_one_early(tag) == tag.offset + 1 = U16_MAX

\* next_tag, the test that sends the thread for a new prefix
exhausted(tag) == tag.offset = U16_MAX

\* next_tag, the tag stored for the next call while the prefix lasts
bump(tag) == Tag(tag.prefix, tag.offset + 1)

\* A thread: pc is where it stands ("idle": outside next_tag; "lock",
\* "read", "write": in Tagger::next before the lock, before the read of the
\* counter, before the write; "body": in next_tag after the thread-local
\* was initialised), local is its NEXT_LOCAL_TAG, old the counter as read.
\* History: last is the tag its last call returned, n the number of its
\* calls that returned, msg the panic that ended it.
NewThread ==
    [pc |-> "idle", local |-> NoTag, old |-> <<0, 0>>, last |-> NoTag,
     n |-> 0, msg |-> "none"]

\* GLOBAL_TAG_PREFIX and the threads.  History: issued / drawn are the tags
\* returned by next_tag / the prefixes returned by Tagger::next so far,
\* dup / dupdraw whether one of them was returned twice.
NoTagger ==
    [value |-> <<0, 0>>,
     mutex |-> [holder |-> 0, poisoned |-> FALSE],
     th |-> [t \in Threads |-> NewThread],
     issued |-> {}, dup |-> FALSE, drawn |-> {}, dupdraw |-> FALSE]

\* ---- state ----------------------------------------------------------------
\* data: the slots the iteration ran over; items: what it yielded (after
\* get_mut: the value written)
NoRet == [op |-> "none", s |-> 0, data |-> <<>>, items |-> <<>>]
\* claim, get or get_mut of store s returned the WrongCoatCheck error
Refused(s) == [NoRet EXCEPT !.op = "refused", !.s = s]

Init ==
    /\ cc = [s \in Stores |-> NoStore]
    /\ tickets = {}
    /\ tix = NoTix
    /\ panic = "none"
    /\ ret = NoRet
    /\ nchecks = 0
    /\ tg = NoTagger

Live        == {s \in Stores : cc[s].st = "live"}
Running     == panic = "none"
\* a store the caller can call into: it exists and no Tickets adaptor holds
\* the mutable borrow of it
Usable(s)   == cc[s].st = "live" /\ tix.cc # s

\* the history fields of a store after a check-in of v, after a successful
\* claim, and after the assignment of w to the slot at index
Logged(c, v) ==
    LET p == [c EXCEPT !.peak = IF len(c) > @ THEN len(c) ELSE @] IN
    IF p.pristine THEN [p EXCEPT !.log = Append(@, v)] ELSE p
Claimed(c) == [c EXCEPT !.pristine = FALSE, !.log = <<>>]
Assigned(c, index, w) ==
    IF c.pristine THEN [c EXCEPT !.log[index + 1] = w] ELSE c

\* rand::random::<usize>().  The program only ever compares tags for
\* equality, so a draw is taken up to renaming: a tag that a store or a
\* ticket still carries, or the least value that none of them carries.
InUse  == {cc[s].tag : s \in Live} \cup {u.tag : u \in tickets}
random ==
    InUse \cup {n \in Usize : n \notin InUse /\ \A m \in Usize \ InUse : n <= m}

\* ---- actions ----------------------------------------------------------------
\* CoatCheck::new / with_capacity
New(s) ==
    /\ Running
    /\ UNCHANGED tg
    /\ cc[s].st = "none"
    /\ \A x \in 1..(s - 1) : cc[x].st = "live"
    /\ \E tag \in random : cc' = [cc EXCEPT ![s] = with_capacity(tag)]
    /\ ret' = NoRet
    /\ UNCHANGED <<tickets, tix, panic, nchecks>>

\* the ticket a check of v at store s returns, given the outcome r
Issued(s, v, r) ==
    LET same == {u.id : u \in {x \in tickets :
                    x = Ticket(cc[s].tag, r.index, x.id, s, v,
                               cc[s].next_free # Len(cc[s].data))}} IN
    Ticket(cc[s].tag, r.index,
           CHOOSE n \in 0..Cardinality(same) : n \notin same,
           s, v, cc[s].next_free # Len(cc[s].data))

Check(s, v) ==
    /\ Running
    /\ UNCHANGED tg
    /\ Usable(s)
    /\ \E dbg \in BOOLEAN :
         LET r == check(cc[s], v, dbg) IN
         /\ panic' = r.panic
         /\ IF r.panic # "none"
            THEN /\ cc' = [cc EXCEPT ![s] = r.cc]
                 /\ UNCHANGED <<tickets, nchecks>>
            ELSE /\ nchecks < MaxChecks
                 /\ cc' = [cc EXCEPT ![s] = Logged(r.cc, v)]
                 /\ tickets' = tickets \cup {Issued(s, v, r)}
                 /\ nchecks' = nchecks + 1
    /\ ret' = NoRet
    /\ UNCHANGED tix

Claim(s, t) ==
    /\ Running
    /\ UNCHANGED tg
    /\ Usable(s)
    /\ t \in tickets
    /\ LET r == claim(cc[s], t) IN
       /\ panic' = r.panic
       /\ IF r.panic # "none"
          THEN /\ cc' = [cc EXCEPT ![s] = r.cc]
               /\ tickets' = tickets \ {t}
          ELSE IF r.res = "Ok"
          THEN /\ cc' = [cc EXCEPT ![s] = Claimed(r.cc)]
               /\ tickets' = tickets \ {t}
          ELSE /\ cc' = [cc EXCEPT ![s] = r.cc]
               /\ tickets' = (tickets \ {t}) \cup {from_error([kind |-> r.res, ticket |-> r.back])}
       /\ ret' = IF r.res = WrongCoatCheck THEN Refused(s) ELSE NoRet
    /\ UNCHANGED <<tix, nchecks>>

Get(s, t) ==
    /\ Running
    /\ UNCHANGED tg
    /\ Usable(s)
    /\ t \in tickets
    /\ LET r == get(cc[s], t) IN
       /\ panic' = r.panic
       /\ cc' = [cc EXCEPT ![s] = r.cc]
       /\ ret' = IF r.res = WrongCoatCheck THEN Refused(s) ELSE NoRet
    /\ UNCHANGED <<tickets, tix, nchecks>>

\* the caller's tickets after the assignment of w to slot index of store s
Written(s, index, w) ==
    {IF u.issuer = s /\ u.index = index THEN [u EXCEPT !.val = w] ELSE u
       : u \in tickets}

GetMut(s, t, w) ==
    /\ Running
    /\ UNCHANGED tg
    /\ Usable(s)
    /\ t \in tickets
    /\ LET r == get_mut(cc[s], t, w) IN
       /\ panic' = r.panic
       /\ IF r.res = "Ok"
          THEN /\ cc' = [cc EXCEPT ![s] = Assigned(r.cc, t.index, w)]
               /\ tickets' = Written(s, t.index, w)
               /\ ret' = [NoRet EXCEPT !.op = "get_mut", !.s = s, !.items = <<w>>]
          ELSE /\ ret' = IF r.res = WrongCoatCheck THEN Refused(s) ELSE NoRet
               /\ cc' = [cc EXCEPT ![s] = r.cc]
               /\ UNCHANGED tickets
    /\ UNCHANGED <<tix, nchecks>>

\* cc[ticket] read
Index(s, t) ==
    /\ Running
    /\ UNCHANGED tg
    /\ Usable(s)
    /\ t \in tickets
    /\ panic' = Index_index(cc[s], t).panic
    /\ ret' = NoRet
    /\ UNCHANGED <<cc, tickets, tix, nchecks>>

\* cc[ticket] = w
IndexMut(s, t, w) ==
    /\ Running
    /\ UNCHANGED tg
    /\ Usable(s)
    /\ t \in tickets
    /\ LET r == index_mut(cc[s], t, w) IN
       /\ panic' = r.panic
       /\ IF r.res = "Ok"
          THEN /\ cc' = [cc EXCEPT ![s] = Assigned(r.cc, t.index, w)]
               /\ tickets' = Written(s, t.index, w)
               /\ ret' = [NoRet EXCEPT !.op = "get_mut", !.s = s, !.items = <<w>>]
          ELSE /\ ret' = NoRet
               /\ UNCHANGED <<cc, tickets>>
    /\ UNCHANGED <<tix, nchecks>>

ContainsTicket(s, t) ==
    /\ Running
    /\ UNCHANGED tg
    /\ Usable(s)
    /\ t \in tickets
    /\ \E dbg \in BOOLEAN : panic' = contains_ticket(cc[s], t, dbg).panic
    /\ ret' = NoRet
    /\ UNCHANGED <<cc, tickets, tix, nchecks>>

\* the caller's tickets once store s is gone: what is left of a ticket of
\* s is its tag and its index
Orphaned(s) ==
    LET keep == {u \in tickets : u.issuer # s}
        gone == {<<u.tag, u.index>> : u \in {x \in tickets : x.issuer = s}}
        old(p) == {u.id : u \in {x \in keep :
                      x.issuer = 0 /\ x.tag = p[1] /\ x.index = p[2]}}
    IN  keep \cup {Ticket(p[1], p[2],
                          CHOOSE n \in 0..Cardinality(old(p)) : n \notin old(p),
                          0, 0, FALSE) : p \in gone}

\* iter / iter_mut / into_iter, run to the end by a for loop; into_iter
\* consumes the store
Iterate(s, kind) ==
    /\ Running
    /\ UNCHANGED tg
    /\ Usable(s)
    /\ ret' = [op |-> kind, s |-> s, data |-> cc[s].data,
               items |-> collect(IterOf(kind, cc[s]))]
    /\ IF kind = "into_iter"
       THEN /\ cc' = [cc EXCEPT ![s] = NoStore]
            /\ tickets' = Orphaned(s)
       ELSE UNCHANGED <<cc, tickets>>
    /\ UNCHANGED <<tix, panic, nchecks>>

\* CoatCheck::reserve; ret.items is the argument followed by the request
\* made to the Vec
Reserve(s, additional) ==
    /\ Running
    /\ UNCHANGED tg
    /\ Usable(s)
    /\ LET r == reserve(cc[s], additional) IN
       /\ cc' = [cc EXCEPT ![s] = r.cc]
       /\ ret' = [NoRet EXCEPT !.op = "reserve", !.s = s,
                               !.items = <<additional>> \o r.request]
    /\ UNCHANGED <<tickets, tix, panic, nchecks>>

\* CoatCheck::reserve_exact
ReserveExact(s, additional) ==
    /\ Running
    /\ UNCHANGED tg
    /\ Usable(s)
    /\ LET r == reserve_exact(cc[s], additional) IN
       /\ cc' = [cc EXCEPT ![s] = r.cc]
       /\ ret' = [NoRet EXCEPT !.op = "reserve_exact", !.s = s,
                               !.items = <<additional>> \o r.request]
    /\ UNCHANGED <<tickets, tix, panic, nchecks>>

\* CoatCheck::check_all.  One Tickets adaptor is alive at a time.
CheckAll(s, src) ==
    /\ Running
    /\ UNCHANGED tg
    /\ Usable(s)
    /\ tix = NoTix
    /\ LET r == check_all(cc[s], src) IN
       /\ cc' = [cc EXCEPT ![s] = r.cc]
       /\ tix' = [NoTix EXCEPT !.cc = s, !.iter = r.iter, !.src = src,
                               !.size0 = len(cc[s])]
    /\ ret' = NoRet
    /\ UNCHANGED <<tickets, panic, nchecks>>

\* self.iter.<call>().map(|v| self.cc.check(v)): n is what the source
\* returned, pos the position in src of the item, adv the adaptor with the
\* source advanced
Mapped(n, pos, adv) ==
    IF n.item = None
    THEN /\ tix' = adv
         /\ UNCHANGED <<cc, tickets, panic, nchecks>>
    ELSE \E dbg \in BOOLEAN :
              LET s == tix.cc
                  v == n.item[1]
                  r == check(cc[s], v, dbg) IN
              /\ panic' = r.panic
              /\ IF r.panic # "none"
                 THEN /\ cc' = [cc EXCEPT ![s] = r.cc]
                      /\ tix' = adv
                      /\ UNCHANGED <<tickets, nchecks>>
                 ELSE /\ nchecks < MaxChecks
                      /\ cc' = [cc EXCEPT ![s] = Logged(r.cc, v)]
                      /\ tickets' = tickets \cup {Issued(s, v, r)}
                      /\ nchecks' = nchecks + 1
                      /\ tix' = [adv EXCEPT !.taken =
                                    Append(@, [pos |-> pos, t |-> Issued(s, v, r)])]

\* Tickets::next
TicketsNext ==
    /\ Running
    /\ UNCHANGED tg
    /\ tix # NoTix /\ ~tix.done
    /\ LET n == source_next(tix.iter) IN
       Mapped(n, tix.lo + 1,
              IF n.item = None
              THEN [tix EXCEPT !.done = TRUE]
              ELSE [tix EXCEPT !.iter = n.rest, !.lo = @ + 1])
    /\ ret' = NoRet

\* Tickets::next_back
TicketsNextBack ==
    /\ Running
    /\ UNCHANGED tg
    /\ tix # NoTix /\ ~tix.done
    /\ LET n == source_next_back(tix.iter) IN
       Mapped(n, Len(tix.src) - tix.hi,
              IF n.item = None
              THEN [tix EXCEPT !.fwd = FALSE]
              ELSE [tix EXCEPT !.iter = n.rest, !.hi = @ + 1, !.fwd = FALSE])
    /\ ret' = NoRet

\* Tickets::idx
TicketsIdx(index) ==
    /\ Running
    /\ UNCHANGED tg
    /\ tix # NoTix /\ ~tix.done
    /\ LET n == source_idx(tix.iter, index) IN
       Mapped(n, tix.lo + index + 1, [tix EXCEPT !.fwd = FALSE])
    /\ ret' = NoRet

\* the adaptor goes out of scope and the borrow of the store ends
TicketsDrop ==
    /\ Running
    /\ UNCHANGED tg
    /\ tix # NoTix
    /\ tix' = NoTix
    /\ ret' = NoRet
    /\ UNCHANGED <<cc, tickets, panic, nchecks>>

Sources == UNION {[1..n -> Vals] : n \in 0..MaxSeq}

\* The program with NumStores stores.  reserve and reserve_exact change no
\* store and are left to the single-store program below.
Next ==
    \/ \E s \in Stores : New(s)
    \/ \E s \in Stores, v \in Vals : Check(s, v)
    \/ \E s \in Stores, t \in tickets : Claim(s, t)
    \/ \E s \in Stores, t \in tickets : Get(s, t)
    \/ \E s \in Stores, t \in tickets, w \in Vals : GetMut(s, t, w)
    \/ \E s \in Stores, t \in tickets : ContainsTicket(s, t)
    \/ \E s \in Stores, t \in tickets : Index(s, t)
    \/ \E s \in Stores, t \in tickets, w \in Vals : IndexMut(s, t, w)
    \/ \E s \in Stores, kind \in {"iter", "iter_mut", "into_iter"} : Iterate(s, kind)
    \/ \E s \in Stores, src \in Sources : CheckAll(s, src)
    \/ TicketsNext
    \/ TicketsNextBack
    \/ \E index \in 0..(MaxSeq - 1) : TicketsIdx(index)
    \/ TicketsDrop

Spec == Init /\ [][Next]_vars

\* The same stores without check_all and its adaptor: the calls that take
\* or return a single ticket, and the iterations
NextPair ==
    \/ \E s \in Stores : New(s)
    \/ \E s \in Stores, v \in Vals : Check(s, v)
    \/ \E s \in Stores, t \in tickets : Claim(s, t)
    \/ \E s \in Stores, t \in tickets : Get(s, t)
    \/ \E s \in Stores, t \in tickets, w \in Vals : GetMut(s, t, w)
    \/ \E s \in Stores, t \in tickets : ContainsTicket(s, t)
    \/ \E s \in Stores, t \in tickets : Index(s, t)
    \/ \E s \in Stores, t \in tickets, w \in Vals : IndexMut(s, t, w)
    \/ \E s \in Stores, kind \in {"iter", "iter_mut", "into_iter"} : Iterate(s, kind)

SpecPair == Init /\ [][NextPair]_vars

\* Callers that present to a store only tickets which that store issued
\* (and which, being in the caller's hands, have not been claimed): check,
\* claim, get and get_mut on NumStores stores whose tags may be equal
NextOwn ==
    \/ \E s \in Stores : New(s)
    \/ \E s \in Stores, v \in Vals : Check(s, v)
    \/ \E s \in Stores : \E t \in {u \in tickets : u.issuer = s} : Claim(s, t)
    \/ \E s \in Stores : \E t \in {u \in tickets : u.issuer = s} : Get(s, t)
    \/ \E s \in Stores : \E t \in {u \in tickets : u.issuer = s}, w \in Vals :
          GetMut(s, t, w)

SpecOwn == Init /\ [][NextOwn]_vars

\* The same program with a single store, reserve and reserve_exact included
NextSolo ==
    \/ New(1)
    \/ \E v \in Vals : Check(1, v)
    \/ \E t \in tickets : Claim(1, t)
    \/ \E t \in tickets : Get(1, t)
    \/ \E t \in tickets, w \in Vals : GetMut(1, t, w)
    \/ \E t \in tickets : ContainsTicket(1, t)
    \/ \E t \in tickets : Index(1, t)
    \/ \E t \in tickets, w \in Vals : IndexMut(1, t, w)
    \/ \E kind \in {"iter", "iter_mut", "into_iter"} : Iterate(1, kind)
    \/ \E additional \in 0..MaxReserve : Reserve(1, additional)
    \/ \E additional \in 0..MaxReserve : ReserveExact(1, additional)
    \/ \E src \in Sources : CheckAll(1, src)
    \/ TicketsNext
    \/ TicketsNextBack
    \/ \E index \in 0..(MaxSeq - 1) : TicketsIdx(index)
    \/ TicketsDrop

SpecSolo == Init /\ [][NextSolo]_vars

\* The single store without check_all and its adaptor
NextCore ==
    \/ New(1)
    \/ \E v \in Vals : Check(1, v)
    \/ \E t \in tickets : Claim(1, t)
    \/ \E t \in tickets : Get(1, t)
    \/ \E t \in tickets, w \in Vals : GetMut(1, t, w)
    \/ \E t \in tickets : ContainsTicket(1, t)
    \/ \E t \in tickets : Index(1, t)
    \/ \E t \in tickets, w \in Vals : IndexMut(1, t, w)
    \/ \E kind \in {"iter", "iter_mut", "into_iter"} : Iterate(1, kind)
    \/ \E additional \in 0..MaxReserve : Reserve(1, additional)
    \/ \E additional \in 0..MaxReserve : ReserveExact(1, additional)

SpecCore == Init /\ [][NextCore]_vars

\* ---- the tag generator ------------------------------------------------------
Alive(t) == tg.th[t].msg = "none"

\* thread t may start a call of next_tag
MayCall(t) ==
    \/ tg.th[t].pc = "body"
    \/ tg.th[t].pc = "idle" /\ Cardinality(tg.issued) < MaxCalls

\* next_tag returns g to thread t
Returned(t, g, local) ==
    [tg EXCEPT !.th[t].local = local, !.th[t].last = g, !.th[t].pc = "idle",
               !.th[t].n = @ + 1,
               !.issued = @ \cup {g}, !.dup = @ \/ g \in tg.issued]

\* next_tag while the prefix lasts: no shared state is touched
NextTag(t) ==
    /\ Alive(t)
    /\ MayCall(t)
    /\ tg.th[t].local # NoTag
    /\ ~exhausted(tg.th[t].local)
    /\ tg' = Returned(t, tg.th[t].local, bump(tg.th[t].local))
    /\ UNCHANGED store_vars

\* next_tag has to call GLOBAL_TAG_PREFIX.next(): on the first use of the
\* thread-local (its initialiser) or when the offsets are used up
NeedPrefix(t) ==
    /\ Alive(t)
    /\ MayCall(t)
    /\ \/ tg.th[t].pc = "idle" /\ tg.th[t].local = NoTag
       \/ tg.th[t].local # NoTag /\ exhausted(tg.th[t].local)
    /\ tg' = [tg EXCEPT !.th[t].pc = "lock"]
    /\ UNCHANGED store_vars

\* Tagger::next: self.mutex.lock().unwrap()
Lock(t) ==
    /\ Alive(t)
    /\ tg.th[t].pc = "lock"
    /\ can_lock(tg.mutex)
    /\ IF tg.mutex.poisoned
       THEN tg' = [tg EXCEPT !.th[t].msg = "PoisonError", !.th[t].pc = "idle"]
       ELSE tg' = [tg EXCEPT !.mutex.holder = t, !.th[t].pc = "read"]
    /\ UNCHANGED store_vars

\* Tagger::next: old = *self.value.get()
Read(t) ==
    /\ Alive(t)
    /\ tg.th[t].pc = "read"
    /\ tg' = [tg EXCEPT !.th[t].old = tg.value, !.th[t].pc = "write"]
    /\ UNCHANGED store_vars

\* Tagger::next: the write of the counter, the end of the lock and the
\* return; then the rest of the thread-local's initialiser or of next_tag
Write(t) ==
    /\ Alive(t)
    /\ tg.th[t].pc = "write"
    /\ LET me     == tg.th[t]
           a      == advance(me.old)
           mine   == tg.mutex.holder = t
           prefix == prefix_of(me.old)
           drew   == [tg EXCEPT !.value = a.value,
                                !.mutex = unlock(@, t),
                                !.drawn = @ \cup {prefix},
                                !.dupdraw = @ \/ prefix \in tg.drawn]
       IN
       IF a.panic # "none"
       THEN tg' = [tg EXCEPT !.th[t].msg = a.panic, !.th[t].pc = "idle",
                             !.mutex = [unlock(@, t) EXCEPT
                                           !.poisoned = @ \/ mine]]
       ELSE IF me.local = NoTag
       THEN tg' = [drew EXCEPT !.th[t].local = Tag(prefix, 0),
                               !.th[t].pc = "body"]
       ELSE tg' = [drew EXCEPT !.th[t].local = Tag(prefix, 0),
                               !.th[t].last = me.local,
                               !.th[t].n = @ + 1,
                               !.th[t].pc = "idle",
                               !.issued = @ \cup {me.local},
                               !.dup = @ \/ me.local \in tg.issued]
    /\ UNCHANGED store_vars

\* the thread ends (its thread-local goes with it) and a new thread takes
\* its place
Exit(t) ==
    /\ tg.th[t].pc = "idle"
    /\ tg.th[t] # NewThread
    /\ tg' = [tg EXCEPT !.th[t] = NewThread]
    /\ UNCHANGED store_vars

NextTagger ==
    \/ \E t \in Threads : NextTag(t)
    \/ \E t \in Threads : NeedPrefix(t)
    \/ \E t \in Threads : Lock(t)
    \/ \E t \in Threads : Read(t)
    \/ \E t \in Threads : Write(t)
    \/ \E t \in Threads : Exit(t)

SpecTagger == Init /\ [][NextTagger]_vars

\* A thread inside a call of next_tag, and the step it takes next.  The
\* scheduler is fair to every thread: a thread whose next step stays
\* possible takes it.  Nothing makes a thread start a call or end.
InCall(t) == tg.th[t].pc # "idle"
Step(t) ==
    /\ InCall(t)
    /\ (NextTag(t) \/ NeedPrefix(t) \/ Lock(t) \/ Read(t) \/ Write(t))

SpecTaggerFair == SpecTagger /\ \A t \in Threads : WF_vars(Step(t))

\* ---- properties -----------------------------------------------------------
FullIndices(data) == {i \in 1..Len(data) : data[i].kind = "Full"}
Outstanding(s)    == {t \in tickets : t.issuer = s}

\* the values of the Full slots by increasing index: the k-th is the value
\* of the Full slot that has k - 1 Full slots before it
LiveValues(data) ==
    [k \in 1..Cardinality(FullIndices(data)) |->
        data[CHOOSE i \in FullIndices(data) :
                Cardinality({j \in FullIndices(data) : j < i}) = k - 1].x]

\* C1: whenever a store can be called, its len() is the number of tickets
\* it issued that have not been successfully claimed, and the number of
\* its Full slots.
C1_LenCountsOutstandingTickets ==
    Running =>
      \A s \in Live :
        /\ len(cc[s]) = Cardinality(Outstanding(s))
        /\ len(cc[s]) = Cardinality(FullIndices(cc[s].data))

\* the part of C1 that is about the slots alone
LenCountsFullSlots ==
    Running =>
      \A s \in Live : len(cc[s]) = Cardinality(FullIndices(cc[s].data))

\* C2: a ticket presented to a store other than the one that issued it is
\* refused with WrongCoatCheck by claim, by get and by get_mut.
C2_ForeignTicketRefused ==
    Running =>
      \A s \in Live : \A t \in tickets :
        (Usable(s) /\ t.issuer # s) =>
          /\ claim(cc[s], t).res = WrongCoatCheck
          /\ get(cc[s], t).res = WrongCoatCheck
          /\ \A w \in Vals : get_mut(cc[s], t, w).res = WrongCoatCheck

\* C3: the tag of a store differs from the tag of every other store of the
\* process, those still alive and those whose tickets are still around.
C3_TagsUnique ==
    /\ \A s1 \in Live : \A s2 \in Live : s1 # s2 => cc[s1].tag # cc[s2].tag
    /\ \A s \in Live : \A t \in tickets : t.issuer # s => t.tag # cc[s].tag

\* the part of C3 that is about one store: no operation changes its tag
TagNeverChanges ==
    [][\A s \in Stores :
          (cc[s].st = "live" /\ cc'[s].st = "live") => cc'[s].tag = cc[s].tag]_vars

\* C4: when claim refuses a ticket, the error carries that very ticket, and
\* the ticket converted back from the error is claimed successfully at the
\* store that issued it, for the value it stands for.
C4_RefusedTicketStillClaims ==
    Running =>
      \A s \in Live : \A t \in tickets :
        LET r == claim(cc[s], t) IN
        (Usable(s) /\ r.res = WrongCoatCheck) =>
          /\ r.back = t
          /\ r.cc = cc[s]
          /\ (t.issuer \in Live /\ Usable(t.issuer)) =>
               LET again == claim(cc[t.issuer],
                                  from_error(ClaimError(r.res, r.back))) IN
               again.res = "Ok" /\ again.val = t.val

\* C5: claiming an outstanding ticket at the store that issued it returns
\* the value the ticket was issued for (or the value last assigned to its
\* slot through get_mut), whatever happened in between.
C5_ClaimReturnsCheckedValue ==
    Running =>
      \A t \in tickets :
        (t.issuer \in Live /\ Usable(t.issuer)) =>
          LET r == claim(cc[t.issuer], t) IN
          r.res = "Ok" /\ r.val = t.val

\* C6: the ticket of a check that reused a freed slot gets and claims the
\* value of that check, and no older ticket for that slot is still around.
C6_ReusedSlotShowsNewValue ==
    Running =>
      \A t \in tickets :
        (t.reused /\ t.issuer \in Live /\ Usable(t.issuer)) =>
          /\ get(cc[t.issuer], t).res = "Ok"
          /\ get(cc[t.issuer], t).val = t.val
          /\ claim(cc[t.issuer], t).res = "Ok"
          /\ claim(cc[t.issuer], t).val = t.val
          /\ \A u \in Outstanding(t.issuer) : u # t => u.index # t.index

\* C7: iter, iter_mut and into_iter yield the values of the Full slots by
\* increasing index, len() of them, and in order of check-in as long as
\* nothing has been claimed.
C7_IterationYieldsLiveValues ==
    Running =>
      /\ \A s \in Live : \A kind \in {"iter", "iter_mut", "into_iter"} :
           LET items == collect(IterOf(kind, cc[s])) IN
           /\ items = LiveValues(cc[s].data)
           /\ Len(items) = len(cc[s])
           /\ cc[s].pristine => items = cc[s].log
      /\ ret.op \in {"iter", "iter_mut", "into_iter"} =>
           ret.items = LiveValues(ret.data)

\* an iteration has run over a store with an Empty slot between Full ones
C7_Witness ==
    /\ ret.op = "iter"
    /\ Len(ret.data) = 3
    /\ ret.data[1].kind = "Full"
    /\ ret.data[2].kind = "Empty"
    /\ ret.data[3].kind = "Full"
    /\ ret.data[1].x # ret.data[3].x
    /\ ret.items = <<ret.data[1].x, ret.data[3].x>>

\* C8: once the tickets of check_all have been taken with next until it
\* returned None, there are as many tickets as source items, len() has grown
\* by that number, and the i-th ticket claims the i-th item.
C8_CheckAllConsumed ==
    (Running /\ tix # NoTix /\ tix.done /\ tix.fwd) =>
      /\ Len(tix.taken) = Len(tix.src)
      /\ len(cc[tix.cc]) = tix.size0 + Len(tix.src)
      /\ \A i \in 1..Len(tix.taken) :
           /\ claim(cc[tix.cc], tix.taken[i].t).res = "Ok"
           /\ claim(cc[tix.cc], tix.taken[i].t).val = tix.src[i]

C8_Witness ==
    /\ Running /\ tix # NoTix /\ tix.done /\ tix.fwd
    /\ Len(tix.src) = 2 /\ tix.src[1] # tix.src[2]
    /\ tix.size0 = 1
    /\ Len(tix.taken) = 2

\* C9 as stated: the items checked in are the first k of the source, k
\* being the number of tickets taken.
C9_FirstItemsOnly ==
    (Running /\ tix # NoTix) =>
      /\ len(cc[tix.cc]) = tix.size0 + Len(tix.taken)
      /\ {tix.taken[i].pos : i \in 1..Len(tix.taken)} = 1..Len(tix.taken)

\* C9, amended: check_all stores nothing by itself; every ticket taken by
\* next, next_back or idx checks in the one source item it was taken for,
\* so len() has grown by the number of tickets taken and nothing else is
\* stored; taken with next alone, the items are the first of the source.
C9_OnlyTakenItemsStored ==
    (Running /\ tix # NoTix) =>
      /\ len(cc[tix.cc]) = tix.size0 + Len(tix.taken)
      /\ Cardinality(FullIndices(cc[tix.cc].data)) = tix.size0 + Len(tix.taken)
      /\ \A i \in 1..Len(tix.taken) :
           /\ tix.taken[i].pos \in 1..Len(tix.src)
           /\ get(cc[tix.cc], tix.taken[i].t).res = "Ok"
           /\ get(cc[tix.cc], tix.taken[i].t).val = tix.src[tix.taken[i].pos]
      /\ tix.fwd => \A i \in 1..Len(tix.taken) : tix.taken[i].pos = i

\* one ticket has been taken, from the back of a source of two items
C9_Witness ==
    /\ Running /\ tix # NoTix
    /\ Len(tix.src) = 2
    /\ Len(tix.taken) = 1
    /\ tix.taken[1].pos = 2
    /\ len(cc[tix.cc]) = tix.size0 + 1

\* C10: contains_ticket returns, for any ticket, whether the ticket's tag is
\* the store's tag; it does not fail, it leaves the store alone, and when
\* it returns true the ticket's slot is Full.
C10_ContainsTicketComparesTags ==
    Running =>
      \A s \in Live : \A t \in tickets : \A dbg \in BOOLEAN :
        Usable(s) =>
          LET r == contains_ticket(cc[s], t, dbg) IN
          /\ r.panic = "none"
          /\ r.res = (IF t.tag = cc[s].tag THEN "true" ELSE "false")
          /\ r.cc = cc[s]
          /\ r.res = "true" =>
               /\ t.index < Len(cc[s].data)
               /\ is_full(cc[s].data[t.index + 1])

\* C11: cc[ticket], read or written, is get / get_mut when the ticket's tag
\* is the store's tag; when it is not, cc[ticket] panics and leaves the store
\* alone, while get, get_mut and claim return WrongCoatCheck as a value.
C11_IndexPanicsOnWrongTag ==
    Running =>
      \A s \in Live : \A t \in tickets : \A w \in Vals :
        Usable(s) =>
          IF t.tag = cc[s].tag
          THEN /\ Index_index(cc[s], t) = get(cc[s], t)
               /\ index_mut(cc[s], t, w) = get_mut(cc[s], t, w)
          ELSE /\ Index_index(cc[s], t).panic = "ticket for wrong CoatCheck"
               /\ index_mut(cc[s], t, w).panic = "ticket for wrong CoatCheck"
               /\ Index_index(cc[s], t).cc = cc[s]
               /\ index_mut(cc[s], t, w).cc = cc[s]
               /\ get(cc[s], t).panic = "none"
               /\ get(cc[s], t).res = WrongCoatCheck
               /\ get_mut(cc[s], t, w).panic = "none"
               /\ get_mut(cc[s], t, w).res = WrongCoatCheck
               /\ claim(cc[s], t).panic = "none"
               /\ claim(cc[s], t).res = WrongCoatCheck

\* cc[ticket] has panicked on a ticket with another tag
C11_Witness ==
    /\ panic = "ticket for wrong CoatCheck"
    /\ \E s \in Live : \E t \in tickets : t.tag # cc[s].tag

\* the store m is the store c but for the value of the Full slot at index,
\* which is w
SameButValue(c, m, index, w) ==
    /\ m.tag = c.tag
    /\ len(m) = len(c)
    /\ m.next_free = c.next_free
    /\ Len(m.data) = Len(c.data)
    /\ \A i \in 1..Len(c.data) : i # index + 1 => m.data[i] = c.data[i]
    /\ c.data[index + 1].kind = "Full"
    /\ m.data[index + 1] = Full(w)

\* C12: a successful get or get_mut (or cc[ticket]) with a ticket the store
\* issued returns the value in the ticket's slot and removes nothing: get
\* leaves the store as it is, get_mut changes nothing but the value of that
\* slot, the value written is what get and claim return next, and the
\* ticket stays with the caller.
C12_AccessKeepsValue ==
    /\ [](Running =>
            \A s \in Live : \A t \in Outstanding(s) : \A w \in Vals :
              (Usable(s) /\ get(cc[s], t).res = "Ok") =>
                LET c == cc[s]
                    m == get_mut(c, t, w).cc IN
                /\ get(c, t).val = c.data[t.index + 1].x
                /\ get(c, t).cc = c
                /\ Index_index(c, t) = get(c, t)
                /\ get_mut(c, t, w).res = "Ok"
                /\ SameButValue(c, m, t.index, w)
                /\ index_mut(c, t, w).cc = m
                /\ get(m, t).res = "Ok" /\ get(m, t).val = w
                /\ claim(m, t).res = "Ok" /\ claim(m, t).val = w)
    /\ [][\A s \in Stores : \A t \in Outstanding(s) : \A w \in Vals :
            /\ (Get(s, t) \/ Index(s, t)) => (tickets' = tickets /\ cc' = cc)
            /\ ((GetMut(s, t, w) \/ IndexMut(s, t, w)) /\ panic' = "none") =>
                  /\ [t EXCEPT !.val = w] \in tickets'
                  /\ get(cc'[s], [t EXCEPT !.val = w]).val = w
                  /\ len(cc'[s]) = len(cc[s])]_vars

\* the last call wrote a value through get_mut into a store that also has
\* a freed slot, and the caller still holds the ticket
C12_Witness ==
    /\ Running
    /\ ret.op = "get_mut"
    /\ \E t \in Outstanding(ret.s) :
         /\ t.val = ret.items[1]
         /\ cc[ret.s].data[t.index + 1] = Full(ret.items[1])
    /\ \E i \in 1..Len(cc[ret.s].data) : cc[ret.s].data[i].kind = "Empty"

\* C13: no tag is returned twice by next_tag and no prefix twice by
\* Tagger::next, whatever the threads and their interleaving.
C13_TagsNeverRepeat ==
    /\ ~tg.dup
    /\ ~tg.dupdraw
    /\ \A t1 \in Threads : \A t2 \in Threads :
         (t1 # t2 /\ tg.th[t1].local # NoTag /\ tg.th[t2].local # NoTag) =>
            tg.th[t1].local.prefix # tg.th[t2].local.prefix
    /\ \A t \in Threads : tg.th[t].local \notin tg.issued

\* two threads hold tags of different prefixes and one of them has been
\* inside Tagger::next while the other waited for the lock
C13_Witness ==
    /\ Cardinality(tg.issued) >= 3
    /\ \E t1 \in Threads : \E t2 \in Threads :
         /\ t1 # t2
         /\ tg.th[t1].pc = "lock"
         /\ tg.th[t2].pc = "write"
         /\ tg.th[t1].last # NoTag /\ tg.th[t2].last # NoTag

\* C14: in one thread the first call of next_tag returns offset 0, every
\* further call the same prefix with the offset one higher, and after
\* offset U16_MAX a different prefix with offset 0; the thread goes for the
\* lock only in its first call and in the call that hands out offset
\* U16_MAX, which draws the prefix for the call after it.
C14_OffsetsCountUp ==
    /\ [](\A t \in Threads :
            /\ tg.th[t].n = 0 <=> tg.th[t].last = NoTag
            /\ tg.th[t].n > 0 =>
                  tg.th[t].last.offset = (tg.th[t].n - 1) % (U16_MAX + 1))
    /\ [][\A t \in Threads :
            LET h == tg.th[t].last
                g == tg'.th[t].last IN
            /\ (g # h /\ g # NoTag /\ h # NoTag) =>
                  IF h.offset < U16_MAX
                  THEN g = Tag(h.prefix, h.offset + 1)
                  ELSE g.offset = 0 /\ g.prefix # h.prefix
            /\ Lock(t) =>
                  \/ tg.th[t].n = 0 /\ tg.th[t].local = NoTag
                  \/ /\ tg.th[t].n > 0
                     /\ tg.th[t].local = Tag(h.prefix, U16_MAX)
                     /\ h.offset = U16_MAX - 1]_vars

\* a thread has used up a prefix and got the first tag of its next one
C14_Witness ==
    \E t \in Threads :
      /\ tg.th[t].n = U16_MAX + 2
      /\ tg.th[t].last.offset = 0
      /\ tg.th[t].local = Tag(tg.th[t].last.prefix, 1)
      /\ Cardinality(tg.drawn) >= 2

\* the counter values in the order Tagger::next goes through them
CounterLeq(v, w) == v[1] < w[1] \/ (v[1] = w[1] /\ v[2] <= w[2])

\* C17: when the counter cannot be advanced (its high component would
\* overflow) the draw panics: the counter never goes back to a smaller
\* value, the draw that fails returns no prefix, and from then on no draw
\* returns one, so no prefix is handed out twice.
C17_PrefixOverflowPanics ==
    /\ [](/\ ~tg.dupdraw
           /\ \A t \in Threads :
                (tg.th[t].msg = "CoatCheck ID overflow!") =>
                  (tg.value = <<U64_MAX, U16_MAX>> /\ tg.mutex.poisoned)
           /\ (tg.mutex.poisoned => tg.value = <<U64_MAX, U16_MAX>>))
    /\ [][/\ CounterLeq(tg.value, tg'.value)
           /\ (tg.mutex.poisoned =>
                 (tg'.drawn = tg.drawn /\ tg'.value = tg.value))
           /\ \A t \in Threads :
                (Write(t) /\ tg.th[t].old = <<U64_MAX, U16_MAX>>) =>
                   /\ tg'.th[t].msg = "CoatCheck ID overflow!"
                   /\ tg'.drawn = tg.drawn
                   /\ tg'.issued = tg.issued]_vars

\* a draw has panicked after every other prefix was handed out, and a later
\* draw of another thread has failed on the poisoned mutex
C17_Witness ==
    /\ Cardinality(tg.drawn) = (U64_MAX + 1) * (U16_MAX + 1) - 1
    /\ \E t1 \in Threads : \E t2 \in Threads :
         /\ tg.th[t1].msg = "CoatCheck ID overflow!"
         /\ tg.th[t2].msg = "PoisonError"

\* ---- C15 ------------------------------------------------------------------
EmptyIndices(data) == {i \in 1..Len(data) : data[i].kind = "Empty"}

\* the store after k further check-ins (it stays as it is once one panics)
RECURSIVE after_checks(_, _)
after_checks(c, k) ==
    IF k = 0 THEN [cc |-> c, panic |-> "none"]
    ELSE LET r == check(c, 1, FALSE) IN
         IF r.panic # "none" THEN [cc |-> r.cc, panic |-> r.panic]
         ELSE after_checks(r.cc, k - 1)

\* C15: after reserve(additional) or reserve_exact(additional) the request
\* made to the Vec is additional minus the number of Empty slots, and none
\* when the Empty slots cover additional; whatever capacity the Vec had and
\* whatever the allocator gave, the slots after additional further check-ins
\* fit in the capacity; the call changes no store and raises no panic.
C15_ReserveCoversCheckIns ==
    /\ [](ret.op \in {"reserve", "reserve_exact"} =>
           LET c          == cc[ret.s]
               additional == ret.items[1]
               request    == Tail(ret.items)
               empties    == Cardinality(EmptyIndices(c.data))
               asked      == IF request = None THEN 0 ELSE request[1]
           IN
           /\ request = IF empties >= additional THEN None
                        ELSE Some(additional - empties)
           /\ \A cap \in Len(c.data)..(Len(c.data) + MaxSpare) :
                \A cap2 \in Vec_reserve(Len(c.data), cap, asked) :
                  Len(after_checks(c, additional).cc.data) <= cap2)
    /\ [][ret'.op \in {"reserve", "reserve_exact"} =>
            cc' = cc /\ panic' = panic /\ tickets' = tickets]_vars

\* a reserve on a store with a Full and an Empty slot that had to ask the
\* Vec for room, and one that did not have to
C15_Witness ==
    /\ ret.op \in {"reserve", "reserve_exact"}
    /\ EmptyIndices(cc[ret.s].data) # {}
    /\ FullIndices(cc[ret.s].data) # {}
    /\ ret.items = <<2, 1>>

C15_WitnessCovered ==
    /\ ret.op = "reserve"
    /\ EmptyIndices(cc[ret.s].data) # {}
    /\ ret.items = <<1>>

\* ---- C16 ------------------------------------------------------------------
UnwrapNone == "called Option::unwrap() on a None value"

\* C16: a check that has to push while next_free + 1 is not a usize panics,
\* with the slot pushed, next_free and len() as they were and no ticket
\* issued; every check that returns gives an index and leaves a next_free
\* that are usize values within the slots, the index is that of a slot that
\* was not Full, and no other slot changes.  No store and no ticket ever
\* carries an index that is not a usize.
C16_CheckPanicsOnOverflow ==
    /\ \A s \in Live : cc[s].next_free \in Usize
    /\ \A u \in tickets : u.index \in Usize
    /\ panic = UnwrapNone =>
         \E s \in Live : /\ Len(cc[s].data) = USIZE_MAX + 1
                          /\ cc[s].next_free = USIZE_MAX
                          /\ cc[s].size = USIZE_MAX
                          /\ \A u \in tickets : u.index < USIZE_MAX
    /\ Running =>
         \A s \in Live, v \in Vals, dbg \in BOOLEAN :
           LET c == cc[s]
               r == check(c, v, dbg) IN
           /\ (c.next_free = Len(c.data) /\ c.next_free + 1 \notin Usize)
                => r.panic = UnwrapNone
           /\ r.panic = "none" =>
                /\ r.index = c.next_free
                /\ r.index \in Usize
                /\ r.cc.next_free \in Usize
                /\ r.cc.next_free <= Len(r.cc.data)
                /\ r.index < Len(r.cc.data)
                /\ r.index < Len(c.data) => c.data[r.index + 1].kind = "Empty"
                /\ r.cc.data[r.index + 1] = Full(v)
                /\ \A i \in 1..Len(c.data) :
                     i # r.index + 1 => r.cc.data[i] = c.data[i]

\* the check that found every usize index taken has panicked
C16_Witness ==
    /\ panic = UnwrapNone
    /\ \E s \in Live : /\ Len(cc[s].data) = USIZE_MAX + 1
                       /\ cc[s].next_free = USIZE_MAX

\* ---- C18 ------------------------------------------------------------------
\* Following the links from index at: the indices visited, and whether the
\* walk reached the sentinel Len(data) without meeting a Full slot, an index
\* beyond the slots or a slot for the second time
RECURSIVE walk(_, _, _)
walk(data, at, seen) ==
    IF at = Len(data) THEN [ok |-> TRUE, visited |-> seen]
    ELSE IF at > Len(data) \/ at \in seen \/ data[at + 1].kind = "Full"
    THEN [ok |-> FALSE, visited |-> seen]
    ELSE walk(data, data[at + 1].x, seen \cup {at})

FreeList(c) == walk(c.data, c.next_free, {})

\* C18: in every store the program can call into, the links from next_free
\* reach the sentinel slots.length through Empty slots only and without
\* repetition, the slots visited are exactly the Empty slots, next_free is
\* at most slots.length, and the debug assertion of check does not fail.
C18_FreeListWellFormed ==
    Running =>
      \A s \in Live :
        /\ FreeList(cc[s]).ok
        /\ FreeList(cc[s]).visited = {i - 1 : i \in EmptyIndices(cc[s].data)}
        /\ cc[s].next_free <= Len(cc[s].data)
        /\ \A v \in Vals :
             check(cc[s], v, TRUE).panic # "assertion failed: loc <= self.data.len()"

\* a store with a Full slot and a free list of two Empty slots
C18_Witness ==
    /\ Running
    /\ \E s \in Live : /\ Cardinality(FreeList(cc[s]).visited) = 2
                       /\ FullIndices(cc[s].data) # {}
                       /\ cc[s].data[cc[s].next_free + 1].x # Len(cc[s].data)

\* ---- C19 ------------------------------------------------------------------
\* C19: whenever a store can be called, every ticket it issued that has not
\* been successfully claimed has an index within the slots and the slot at
\* that index is Full (contains_ticket answers true for it).
C19_OutstandingTicketsAreFull ==
    Running =>
      \A s \in Live : \A t \in Outstanding(s) :
        /\ t.index < Len(cc[s].data)
        /\ cc[s].data[t.index + 1].kind = "Full"

\* ---- C20 ------------------------------------------------------------------
\* sequences of distinct tickets, at most n long
RECURSIVE Orders(_, _)
Orders(ts, n) ==
    IF n = 0 THEN {<<>>}
    ELSE {<<>>} \cup UNION {{<<t>> \o o : o \in Orders(ts \ {t}, n - 1)} : t \in ts}

\* the store after the claims of the tickets of seq in turn, and whether
\* each of them returned Ok
RECURSIVE claim_each(_, _)
claim_each(c, seq) ==
    IF seq = <<>> THEN [cc |-> c, ok |-> TRUE]
    ELSE LET r == claim(c, Head(seq)) IN
         IF r.panic # "none" \/ r.res # "Ok" THEN [cc |-> r.cc, ok |-> FALSE]
         ELSE claim_each(r.cc, Tail(seq))

\* the indices of the tickets that k check-ins in a row return, and the
\* store after them
RECURSIVE check_each(_, _)
check_each(c, k) ==
    IF k = 0 THEN [cc |-> c, indices |-> <<>>, ok |-> TRUE]
    ELSE LET r == check(c, 1, FALSE) IN
         IF r.panic # "none" THEN [cc |-> r.cc, indices |-> <<>>, ok |-> FALSE]
         ELSE LET rest == check_each(r.cc, k - 1) IN
              [rest EXCEPT !.indices = <<r.index>> \o @]

Reverse(seq) == [k \in 1..Len(seq) |-> seq[Len(seq) + 1 - k]]

\* C20: in every store the program can call into, a claim that returns Ok
\* leaves the ticket's slot Empty with the old next_free as its link and
\* next_free at the ticket's index; after any number of such claims in a
\* row the same number of check-ins return the claimed indices in reverse
\* order, add no slot and put next_free back where it was; and a check-in
\* adds a slot exactly when next_free is slots.length, the ticket then
\* carrying that index.
C20_LastFreedFirstReused ==
    Running =>
      \A s \in Live :
        LET c == cc[s] IN
        /\ \A t \in tickets :
             LET r == claim(c, t) IN
             (r.panic = "none" /\ r.res = "Ok") =>
               /\ r.cc.data[t.index + 1] = Empty(c.next_free)
               /\ r.cc.next_free = t.index
               /\ check(r.cc, 1, FALSE).panic = "none"
               /\ check(r.cc, 1, FALSE).index = t.index
        /\ \A seq \in Orders(tickets, MaxChecks) :
             LET claimed == claim_each(c, seq)
                 checked == check_each(claimed.cc, Len(seq)) IN
             claimed.ok =>
               /\ checked.ok
               /\ checked.indices = Reverse([k \in 1..Len(seq) |-> seq[k].index])
               /\ Len(checked.cc.data) = Len(c.data)
               /\ checked.cc.next_free = c.next_free
        /\ \A v \in Vals :
             LET r == check(c, v, FALSE) IN
             r.panic = "none" =>
               /\ Len(r.cc.data) > Len(c.data) <=> c.next_free = Len(c.data)
               /\ Len(r.cc.data) > Len(c.data) =>
                    r.index = Len(c.data) /\ Len(r.cc.data) = Len(c.data) + 1

\* a check-in has reused a slot that a claim had freed, and the free list
\* of the store holds one more freed slot, whose link is the sentinel
C20_Witness ==
    /\ Running
    /\ \E s \in Live :
         /\ \E t \in Outstanding(s) : t.reused
         /\ cc[s].next_free < Len(cc[s].data)
         /\ cc[s].data[cc[s].next_free + 1] = Empty(Len(cc[s].data))

\* ---- C21 ------------------------------------------------------------------
\* C21: a store is created without slots; in no step does a store lose a
\* slot; a step adds a slot to a store only if it adds exactly one, every
\* slot of the store was Full and the step is a check-in (len() goes up by
\* one, or the check-in panics on the index overflow); and in every store
\* the program can call into, the number of slots is the largest value
\* len() has had.
C21_SlotsOnlyGrowOnFullStore ==
    /\ [](Running => \A s \in Live : Len(cc[s].data) = cc[s].peak)
    /\ [][\A s \in Stores :
            /\ (cc[s].st = "none" /\ cc'[s].st = "live") => cc'[s].data = <<>>
            /\ (cc[s].st = "live" /\ cc'[s].st = "live") =>
                 /\ Len(cc'[s].data) >= Len(cc[s].data)
                 /\ Len(cc'[s].data) > Len(cc[s].data) =>
                      /\ Len(cc'[s].data) = Len(cc[s].data) + 1
                      /\ EmptyIndices(cc[s].data) = {}
                      /\ cc[s].next_free = Len(cc[s].data)
                      /\ \/ len(cc'[s]) = len(cc[s]) + 1
                         \/ panic' = UnwrapNone]_vars

\* a store whose len() has been 2 and is lower now, and a check-in into it
\* has reused a slot instead of adding one
C21_Witness ==
    /\ Running
    /\ \E s \in Live :
         /\ cc[s].peak = 2
         /\ Len(cc[s].data) = 2
         /\ len(cc[s]) < 2
         /\ \E t \in Outstanding(s) : t.reused

\* ---- C22 ------------------------------------------------------------------
\* C22: the mutex is held by a thread only between its lock and the end of
\* its write of the counter, never by a thread that is outside Tagger::next;
\* a thread that waits for the mutex waits for a thread that can go on; and
\* under a fair scheduler every call of next_tag comes to its end: it
\* returns a tag or panics.
C22_CallsTerminate ==
    /\ [](\A t \in Threads :
            /\ tg.mutex.holder = t => tg.th[t].pc \in {"read", "write"}
            /\ tg.th[t].pc \in {"read", "write"} => tg.mutex.holder = t
            /\ tg.th[t].pc = "lock" =>
                 \/ tg.mutex.holder = 0
                 \/ tg.th[tg.mutex.holder].pc \in {"read", "write"})
    /\ \A t \in Threads : InCall(t) ~> ~InCall(t)

\* a thread waits for the mutex while another thread holds it
C22_Witness ==
    \E t, u \in Threads :
       /\ tg.th[t].pc = "lock"
       /\ tg.mutex.holder = u
       /\ tg.th[u].pc = "write"

\* ---- C23 ------------------------------------------------------------------
\* C23: claim, get and get_mut given a ticket whose tag is not the store's
\* return the WrongCoatCheck error (claim with the ticket in it) and the
\* store as it was: slots, next_free, len() and tag; and every step in which
\* one of them returned that error leaves all stores, the caller's tickets
\* and the panic state as they were.
C23_RefusalChangesNothing ==
    /\ [](Running =>
           \A s \in Live : \A t \in tickets :
             t.tag # cc[s].tag =>
               /\ claim(cc[s], t).cc = cc[s]
               /\ claim(cc[s], t).res = WrongCoatCheck
               /\ claim(cc[s], t).panic = "none"
               /\ claim(cc[s], t).back = t
               /\ get(cc[s], t).cc = cc[s]
               /\ get(cc[s], t).res = WrongCoatCheck
               /\ get(cc[s], t).panic = "none"
               /\ \A w \in Vals :
                    /\ get_mut(cc[s], t, w).cc = cc[s]
                    /\ get_mut(cc[s], t, w).res = WrongCoatCheck
                    /\ get_mut(cc[s], t, w).panic = "none")
    /\ [][ret'.op = "refused" =>
            cc' = cc /\ tickets' = tickets /\ panic' = panic]_vars

\* a store with a Full slot has refused a ticket that points at that slot
C23_Witness ==
    /\ Running
    /\ ret.op = "refused"
    /\ \E t \in tickets :
         /\ t.tag # cc[ret.s].tag
         /\ t.index < Len(cc[ret.s].data)
         /\ cc[ret.s].data[t.index + 1].kind = "Full"

\* ---- C24 ------------------------------------------------------------------
\* C24: whenever a store can be called, the tickets it issued that have not
\* been successfully claimed have different indices.
C24_OutstandingIndicesDiffer ==
    Running =>
      \A s \in Live : \A t \in Outstanding(s) : \A u \in Outstanding(s) :
        t.index = u.index => t = u

\* ---- C25 ------------------------------------------------------------------
\* what get and claim return for ticket u at store c
Answer(c, u) ==
    [get   |-> [res |-> get(c, u).res, val |-> get(c, u).val],
     claim |-> [res |-> claim(c, u).res, val |-> claim(c, u).val]]

\* ticket u stands for the same Full slot and the same value in store d as
\* in store c
Untouched(c, d, u) ==
    /\ u.index < Len(d.data)
    /\ d.data[u.index + 1] = c.data[u.index + 1]
    /\ Answer(d, u) = Answer(c, u)

\* C25: whenever a store can be called, for each ticket u it issued that has
\* not been claimed and whose slot is Full: a check-in, a claim of another
\* ticket that returns Ok, and a write through get_mut with another ticket
\* leave the slot of u Full with the same value, and get and claim with u
\* return what they would have returned before.
C25_OtherTicketsUntouched ==
    Running =>
      \A s \in Live : \A u \in Outstanding(s) :
        LET c == cc[s] IN
        (u.index < Len(c.data) /\ c.data[u.index + 1].kind = "Full") =>
          /\ \A v \in Vals :
               check(c, v, FALSE).panic = "none" =>
                 Untouched(c, check(c, v, FALSE).cc, u)
          /\ \A t \in tickets \ {u} :
               /\ (claim(c, t).panic = "none" /\ claim(c, t).res = "Ok") =>
                    Untouched(c, claim(c, t).cc, u)
               /\ \A w \in Vals :
                    (get_mut(c, t, w).panic = "none"
                       /\ get_mut(c, t, w).res = "Ok") =>
                      Untouched(c, get_mut(c, t, w).cc, u)

\* ---- C26 ------------------------------------------------------------------
\* C26: when every ticket presented to a store was issued by that store, no
\* call panics in Entry::fill, in Entry::empty, on a forged ticket, on an
\* index out of bounds or on the debug assertion of check: the only panic is
\* that of the check-in that finds the index space used up; and claim, get
\* and get_mut with any ticket the store issued return Ok.
C26_OwnTicketsNeverPanic ==
    /\ panic \in {"none", UnwrapNone}
    /\ Running =>
         \A s \in Live :
           /\ \A t \in Outstanding(s) :
                /\ claim(cc[s], t).panic = "none" /\ claim(cc[s], t).res = "Ok"
                /\ get(cc[s], t).panic = "none" /\ get(cc[s], t).res = "Ok"
                /\ \A w \in Vals :
                     /\ get_mut(cc[s], t, w).panic = "none"
                     /\ get_mut(cc[s], t, w).res = "Ok"
           /\ \A v \in Vals : \A dbg \in BOOLEAN :
                check(cc[s], v, dbg).panic \in {"none", UnwrapNone}

\* two stores of the same tag, both with tickets out; one of them has had a
\* slot freed by a claim and filled again by a check-in, and a value has
\* just been written through get_mut
C26_Witness ==
    /\ Running
    /\ ret.op = "get_mut"
    /\ \E s \in Live : \E x \in Live :
         /\ s # x
         /\ cc[s].tag = cc[x].tag
         /\ \E t \in Outstanding(s) : t.reused
         /\ Outstanding(x) # {}

====
